---- MODULE Spec2Model ----
(***************************************************************************)
(* Model of the join / leave workflow of lib/utils/promote.ts.             *)
(*                                                                         *)
(* Strings whose content the code inspects (fleet names and slugs) are     *)
(* sequences of one-character strings, so that split('/') and              *)
(* toLowerCase() are computed.  Addresses, device type slugs and versions  *)
(* are only compared for equality and are plain strings; "" stands for a   *)
(* missing / undefined value.                                              *)
(*                                                                         *)
(* Results of external calls (discovery, docker ping, remote exec, SDK     *)
(* queries, prompts) are inputs, drawn where the call is made.             *)
(***************************************************************************)
EXTENDS Integers, Sequences, FiniteSets, TLC

\* ---------------------------------------------------------------- bounds
MaxDevices == 2        \* candidates returned by discovery
MaxApps == 3           \* fleets returned by one API query
MaxNameAttempts == 2   \* name prompts answered in one creation loop

\* ------------------------------------------------------- program constants
MIN_BALENAOS_VERSION == "v2.14.0"

\* ----------------------------------------------------------- input domains
Addresses == {"10.0.0.1", "10.0.0.2"}
ArgAddresses == {"", "10.0.0.9"}
Archs == {"aarch64", "armv7hf"}
DeviceTypeSlugs == {"raspberrypi4-64", "raspberrypi3", "jetson-nano"}
Versions == {"2.101.7"}
Usernames == {<<"u">>, <<"N">>}
FleetOrgs == {<<"n">>, <<"u">>, <<"m">>}
FleetNames == {<<"f">>}
EnteredNames == {<<"f">>, <<"g">>}
PollIntervalArgs == {"undefined", "10"}
FormAnswers == {"15"}
Uuids == {"7cf02a6"}
Commits == {"91165e5", "c0ffee1"}
PinParams == [uuid : Uuids, releaseToPinTo : Commits \cup {""}]
NoParams == [uuid |-> "", releaseToPinTo |-> ""]
AppNameArgs == {<<>>, <<"f">>, <<"n", "/", "f">>, <<"N", "/", "f">>}

\* --------------------------------------------------------- string helpers
\* String.prototype.toLowerCase, on the characters the model uses
LowerChar(c) == IF c = "N" THEN "n" ELSE IF c = "U" THEN "u" ELSE c

ToLowerCase(s) == [i \in DOMAIN s |-> LowerChar(s[i])]

\* String.prototype.split(sep) for a one-character separator: the list of
\* the segments between the separators (always at least one segment)
RECURSIVE SplitFrom(_, _, _, _)
SplitFrom(s, sep, i, cur) ==
    IF i > Len(s) THEN <<cur>>
    ELSE IF s[i] = sep THEN <<cur>> \o SplitFrom(s, sep, i + 1, <<>>)
    ELSE SplitFrom(s, sep, i + 1, Append(cur, s[i]))

Split(s, sep) == SplitFrom(s, sep, 1, <<>>)

Range(s) == {s[i] : i \in DOMAIN s}

\* sequences of length at most n over S
SeqsUpTo(S, n) == UNION {[1..k -> S] : k \in 0..n}

\* number of positions of s holding x
Count(s, x) == Cardinality({i \in DOMAIN s : s[i] = x})

\* ------------------------------------------------------------- SDK data
\* device type catalog: sdk.models.deviceType.getAllSupported, each entry
\* with is_of__cpu_architecture[0].slug
ArchOf(dt) == IF dt = "raspberrypi3" THEN "armv7hf" ELSE "aarch64"

\* sdk.models.os.isArchitectureCompatibleWith is some relation in which an
\* architecture is compatible with itself
ArchRelations ==
    {r \in SUBSET (Archs \X Archs) : \A a \in Archs : <<a, a>> \in r}

\* an application as returned with $expand is_for__device_type
Slug(org, name) == ToLowerCase(org) \o <<"/">> \o name

Fleets ==
    {[slug |-> Slug(o, n), app_name |-> n, is_for__device_type |-> dt] :
        o \in FleetOrgs, n \in FleetNames, dt \in DeviceTypeSlugs}

NoApp == [slug |-> <<>>, app_name |-> <<>>, is_for__device_type |-> ""]

\* a query result: fleets matching the $filter, no slug twice
QueryResults(matching) ==
    {r \in SeqsUpTo(matching, MaxApps) :
        \A i, j \in DOMAIN r : i # j => r[i].slug # r[j].slug}

NoValues == [k \in {} |-> ""]

NoCreated == [name |-> <<>>, deviceType |-> "", organization |-> <<>>]

NoError == [kind |-> "", minVersion |-> ""]

VARIABLES
    op,                  \* "join" or "leave"
    argIp,               \* deviceHostnameOrIp as passed by the caller
    appName,             \* appName as passed by the caller (<<>>: none)
    appUpdatePollInterval, \* as passed by the caller ("undefined": none)
    pc,                  \* position of the run
    deviceHostnameOrIp,  \* join / leave: the address in use
    devices,             \* selectLocalBalenaOsDevice: discovered addresses
    alive,               \* addresses whose docker ping succeeds
    probe,               \* state of each candidate's probe callback
    responsiveDevices,   \* selectLocalBalenaOsDevice: responsiveDevices
    promptDefault,       \* device prompt: default
    hostnameOrIp,        \* selectLocalDevice: answer of the prompt
    error,               \* the error that ended the run
    clientError,         \* assertDeviceIsCompatible: kind the exec client raised
    deviceType,          \* join: probed device type
    archCompat,          \* the SDK's architecture compatibility relation
    compatibleDeviceTypes,
    applications,        \* query result of the resolver
    validApplications,
    selectChoices,       \* selectAppFromList: list shown
    name,                \* default of the name prompt
    username,            \* createApplication: whoami
    enteredName,         \* createApplication: last answer of the name prompt
    attempts,            \* name prompts answered so far
    lastCheck,           \* createApplication: outcome of the last duplicate check
    created,             \* arguments of sdk.models.application.create
    app,                 \* join: the resolved fleet
    deviceOsVersion,
    values,              \* generateApplicationConfig: values given to configGen
    config,
    trace,               \* calls made and prompts shown, in order
    output,              \* getDeviceType / getOsVersion: the os-release read
    picked,              \* selectAppFromList: position the user picked
    answers,             \* generateApplicationConfig: result of the form
    params,              \* device pin: uuid and releaseToPinTo
    pinnedRelease,       \* device pin: commit the fetched device is pinned to
    printed,             \* device pin: what console.log printed
    pinCalls             \* device pin: arguments of each pinToRelease call

vars == <<op, argIp, appName, appUpdatePollInterval, pc, deviceHostnameOrIp, devices, alive, probe,
          responsiveDevices, promptDefault, hostnameOrIp, error, clientError,
          deviceType, archCompat, compatibleDeviceTypes, applications,
          validApplications, selectChoices, name, username, enteredName,
          attempts, lastCheck, created, app, deviceOsVersion, values, config,
          trace, output, picked, answers, params, pinnedRelease, printed,
          pinCalls>>

locatorVars == <<devices, alive, probe, responsiveDevices, promptDefault,
                 hostnameOrIp>>

resolverVars == <<archCompat, compatibleDeviceTypes, applications,
                  validApplications, selectChoices, name, username,
                  enteredName, attempts, lastCheck, created, picked>>

joinVars == <<deviceType, app, deviceOsVersion, values, config, output,
              answers>>

pinVars == <<params, pinnedRelease, printed, pinCalls>>

inputVars == <<op, argIp, appName, appUpdatePollInterval>>

Ev(what, arg) == <<what, arg>>

Log(what, arg) == trace' = Append(trace, Ev(what, arg))

LogAll(evs) == trace' = trace \o evs

Fail(kind) ==
    /\ pc' = "failed"
    /\ error' = [kind |-> kind, minVersion |-> ""]

Init ==
    /\ op \in {"join", "leave", "pin"}
    /\ argIp \in (IF op = "pin" THEN {""} ELSE ArgAddresses)
    /\ appName \in (IF op = "join" THEN AppNameArgs ELSE {<<>>})
    /\ appUpdatePollInterval \in
           (IF op = "join" THEN PollIntervalArgs ELSE {"undefined"})
    /\ pc = "start"
    /\ deviceHostnameOrIp = ""
    /\ devices = <<>>
    /\ alive = {}
    /\ probe = <<>>
    /\ responsiveDevices = <<>>
    /\ promptDefault = ""
    /\ hostnameOrIp = ""
    /\ error = NoError
    /\ clientError = ""
    /\ deviceType = ""
    /\ archCompat = {}
    /\ compatibleDeviceTypes = {}
    /\ applications = <<>>
    /\ validApplications = <<>>
    /\ selectChoices = <<>>
    /\ name = <<>>
    /\ username = <<>>
    /\ enteredName = <<>>
    /\ attempts = 0
    /\ lastCheck = ""
    /\ created = NoCreated
    /\ app = NoApp
    /\ deviceOsVersion = ""
    /\ values = NoValues
    /\ config = NoValues
    /\ trace = <<>>
    /\ output = <<>>
    /\ picked = 0
    /\ answers = NoValues
    /\ params \in (IF op = "pin" THEN PinParams ELSE {NoParams})
    /\ pinnedRelease = ""
    /\ printed = <<>>
    /\ pinCalls = <<>>

\* ------------------------------------------------------------ Device Locator
\* join / leave line 35 / 76: deviceHostnameOrIp || (await selectLocalDevice())
DetermineDevice ==
    /\ pc = "start"
    /\ op \in {"join", "leave"}
    /\ IF argIp # ""
         THEN /\ deviceHostnameOrIp' = argIp
              /\ pc' = "assert"
         ELSE /\ pc' = "discover"
              /\ UNCHANGED deviceHostnameOrIp
    /\ UNCHANGED <<inputVars, locatorVars, resolverVars, joinVars, error,
                   clientError, trace>>
    /\ UNCHANGED <<pinVars>>

\* discoverLocalBalenaOsDevices(timeout): the candidate list ("" is a
\* candidate without address), or a failure of the discovery itself
Discover ==
    /\ pc = "discover"
    /\ \/ /\ \E devs \in SeqsUpTo(Addresses \cup {""}, MaxDevices),
                al \in SUBSET Addresses :
                /\ devices' = devs
                /\ alive' = al
          /\ pc' = "map"
          /\ UNCHANGED error
       \/ /\ Fail("DiscoveryError")
          /\ UNCHANGED <<devices, alive>>
    /\ UNCHANGED <<inputVars, deviceHostnameOrIp, probe, responsiveDevices,
                   promptDefault, hostnameOrIp, resolverVars, joinVars,
                   clientError, trace>>
    /\ UNCHANGED <<pinVars>>

\* devices.map(async ...): every callback runs up to its first await; a
\* candidate without address returns at once
ProbeStart(address) == IF address = "" THEN "returned" ELSE "pinging"

StartProbes ==
    /\ pc = "map"
    /\ probe' = [i \in DOMAIN devices |-> ProbeStart(devices[i])]
    /\ pc' = "probing"
    /\ UNCHANGED <<inputVars, deviceHostnameOrIp, devices, alive,
                   responsiveDevices, promptDefault, hostnameOrIp, error,
                   clientError, resolverVars, joinVars, trace>>
    /\ UNCHANGED <<pinVars>>

\* await docker.ping() settles for candidate i: push on success, swallow
\* the error otherwise
PingResult_PushAlways(responsive, address, ok) == Append(responsive, address)

PingResult(responsive, address, ok) ==
    IF ok THEN Append(responsive, address) ELSE responsive

PingSettle(i) ==
    /\ pc = "probing"
    /\ probe[i] = "pinging"
    /\ responsiveDevices' =
           PingResult(responsiveDevices, devices[i], devices[i] \in alive)
    /\ probe' = [probe EXCEPT ![i] = "returned"]
    /\ UNCHANGED <<inputVars, pc, deviceHostnameOrIp, devices, alive,
                   promptDefault, hostnameOrIp, error, clientError,
                   resolverVars, joinVars, trace>>
    /\ UNCHANGED <<pinVars>>

\* await Promise.all(...): no callback rejects, so it resolves when every
\* callback has returned
AllProbesSettled_First(pr) ==
    pr = <<>> \/ \E i \in DOMAIN pr : pr[i] = "returned"

AllProbesSettled(pr) == \A i \in DOMAIN pr : pr[i] = "returned"

\* after Promise.all: the empty check, else the prompt is shown
NeedsDevicePrompt_MoreThanOne(responsive) == Len(responsive) > 1

NeedsDevicePrompt(responsive) == Len(responsive) > 0

AllSettled ==
    /\ pc = "probing"
    /\ AllProbesSettled(probe)
    /\ IF ~NeedsDevicePrompt(responsiveDevices)
         THEN \* Error('Could not find any ...') -> ExpectedError
              /\ Fail("NoDevicesFound")
              /\ UNCHANGED <<promptDefault, trace>>
         ELSE /\ pc' = "askDevice"
              /\ promptDefault' = devices[1]
              /\ Log("ask:device", "")
              /\ UNCHANGED error
    /\ UNCHANGED <<inputVars, deviceHostnameOrIp, devices, alive, probe,
                   responsiveDevices, hostnameOrIp, clientError, resolverVars,
                   joinVars>>
    /\ UNCHANGED <<pinVars>>

\* lines 209-212: the choices of the prompt, one per responsive device
DeviceChoices_AllDiscovered(devs, responsive) == Range(devs) \ {""}

DeviceChoices(devs, responsive) == Range(responsive)

\* the user picks one of the choices (value: device.address)
AnswerDevice ==
    /\ pc = "askDevice"
    /\ \E a \in DeviceChoices(devices, responsiveDevices) : hostnameOrIp' = a
    /\ pc' = "selected"
    /\ UNCHANGED <<inputVars, deviceHostnameOrIp, devices, alive, probe,
                   responsiveDevices, promptDefault, error, clientError,
                   resolverVars, joinVars, trace>>
    /\ UNCHANGED <<pinVars>>

\* selectLocalDevice returns; the locals of the locator go out of scope
LocateReturn ==
    /\ pc = "selected"
    /\ deviceHostnameOrIp' = hostnameOrIp
    /\ pc' = "assert"
    /\ devices' = <<>>
    /\ alive' = {}
    /\ probe' = <<>>
    /\ responsiveDevices' = <<>>
    /\ promptDefault' = ""
    /\ UNCHANGED <<inputVars, hostnameOrIp, error, clientError, resolverVars,
                   joinVars, trace>>
    /\ UNCHANGED <<pinVars>>

\* -------------------------------------------------------------- Device Probe
\* kinds of error getLocalDeviceCmdStdout can raise
ExecErrorKinds == {"ExpectedError", "Error"}

\* assertDeviceIsCompatible, the catch block: an ExpectedError is rethrown
\* as it is, anything else becomes an ExpectedError naming the minimum
\* balenaOS version
AssertCatch_Rethrow(kind) == [kind |-> kind, minVersion |-> ""]

AssertCatch(kind) ==
    IF kind = "ExpectedError"
      THEN [kind |-> "ExpectedError", minVersion |-> ""]
      ELSE [kind |-> "ExpectedError", minVersion |-> MIN_BALENAOS_VERSION]

\* where join / leave go after await assertDeviceIsCompatible(...)
AfterAssert_Continue(ok) ==
    IF op = "join" THEN "getDeviceType" ELSE "deconfigure"

AfterAssert(ok) ==
    IF ~ok THEN "failed"
    ELSE IF op = "join" THEN "getDeviceType" ELSE "deconfigure"

AssertDeviceIsCompatible ==
    /\ pc = "assert"
    /\ \/ /\ pc' = AfterAssert(TRUE)
          /\ LogAll(<<Ev("exec:os-config --version", deviceHostnameOrIp),
                      Ev("assertOk", deviceHostnameOrIp)>>)
          /\ UNCHANGED <<error, clientError>>
       \/ \E kind \in ExecErrorKinds :
            /\ pc' = AfterAssert(FALSE)
            /\ clientError' = kind
            /\ error' = AssertCatch(kind)
            /\ Log("exec:os-config --version", deviceHostnameOrIp)
    /\ UNCHANGED <<inputVars, deviceHostnameOrIp, locatorVars, resolverVars,
                   joinVars>>
    /\ UNCHANGED <<pinVars>>

\* /etc/os-release as returned by getDeviceOsRelease: lines KEY="value"
Line(k, v) == [key |-> k, value |-> v]

OsReleaseRecords ==
    {<<Line("SLUG", dt), Line("VERSION_ID", v)>> :
        dt \in DeviceTypeSlugs, v \in Versions}
    \cup {<<Line("NAME", "balenaOS"), Line("VERSION_ID", v), Line("SLUG", dt)>> :
        dt \in {"raspberrypi3"}, v \in Versions}
    \cup {<<Line("NAME", "balenaOS"), Line("VERSION_ID", v)>> : v \in Versions}
    \cup {<<Line("SLUG", dt), Line("NAME", "balenaOS")>> : dt \in {"jetson-nano"}}
    \cup {<<Line("SLUG", "raspberrypi4-64"), Line("SLUG", "raspberrypi3"),
             Line("VERSION_ID", v), Line("VERSION_ID", "0.0.0")>> : v \in Versions}
    \cup {<<Line("SLUG", ""), Line("VERSION_ID", "")>>, <<>>}

\* /^KEY="([^"]+)"$/m.exec(output): the value of the first line KEY="..."
\* with a non-empty value; "" when there is no match
RECURSIVE MatchFrom(_, _, _)
MatchFrom(text, key, i) ==
    IF i > Len(text) THEN ""
    ELSE IF text[i].key = key /\ text[i].value # "" THEN text[i].value
    ELSE MatchFrom(text, key, i + 1)

Match_FirstLine(text, key) == IF Len(text) = 0 THEN "" ELSE text[1].value

Match(text, key) == MatchFrom(text, key, 1)

GetDeviceType ==
    /\ pc = "getDeviceType"
    /\ Log("exec:os-release", deviceHostnameOrIp)
    /\ \/ \E record \in OsReleaseRecords :
            /\ output' = record
            /\ IF Match(record, "SLUG") = ""
                 THEN /\ Fail("ProbeError")
                      /\ UNCHANGED deviceType
                 ELSE /\ deviceType' = Match(record, "SLUG")
                      /\ pc' = "resolve"
                      /\ UNCHANGED error
       \/ /\ Fail("ExecError")
          /\ UNCHANGED <<deviceType, output>>
    /\ UNCHANGED <<inputVars, deviceHostnameOrIp, locatorVars, resolverVars,
                   clientError, app, deviceOsVersion, values, config>>
    /\ UNCHANGED <<answers, pinVars>>

\* ------------------------------------------------------------------- leave
\* deconfigure: execCommand(deviceIp, 'os-config leave', ...)
Deconfigure_Retry ==
    /\ pc = "deconfigure"
    /\ Log("exec:os-config leave", deviceHostnameOrIp)
    /\ \/ pc' = "done"
       \/ pc' = "deconfigure"
    /\ UNCHANGED <<inputVars, deviceHostnameOrIp, locatorVars, resolverVars,
                   joinVars, error, clientError>>
    /\ UNCHANGED <<pinVars>>

Deconfigure ==
    /\ pc = "deconfigure"
    /\ Log("exec:os-config leave", deviceHostnameOrIp)
    /\ \/ /\ pc' = "done"
          /\ UNCHANGED error
       \/ Fail("ExecError")
    /\ UNCHANGED <<inputVars, deviceHostnameOrIp, locatorVars, resolverVars,
                   joinVars, clientError>>
    /\ UNCHANGED <<pinVars>>

\* ------------------------------------------------------------ Fleet Resolver
IsArchitectureCompatibleWith(rel, a, b) == <<a, b>> \in rel

\* getOrSelectApplication lines 268-275: slugs of the supported device types
\* whose architecture is compatible with the one of the probed device type
CompatibleDeviceTypes(rel, deviceTypeSlug) ==
    {dt \in DeviceTypeSlugs :
        IsArchitectureCompatibleWith(rel, ArchOf(deviceTypeSlug), ArchOf(dt))}

\* lines 251-279: the two device type reads, then the no-name / name branch
\* (getDeviceType has returned: its local output is gone)
ResolveStart ==
    /\ pc = "resolve"
    /\ output' = <<>>
    /\ LogAll(<<Ev("api:deviceType.get", ""), Ev("api:deviceType.getAllSupported", "")>>)
    /\ \/ /\ \E rel \in ArchRelations :
                /\ archCompat' = rel
                /\ compatibleDeviceTypes' = CompatibleDeviceTypes(rel, deviceType)
          /\ pc' = IF appName = <<>> THEN "createOrSelect" ELSE "namedQuery"
          /\ UNCHANGED error
       \/ /\ Fail("ApiError")
          /\ UNCHANGED <<archCompat, compatibleDeviceTypes>>
    /\ UNCHANGED <<inputVars, deviceHostnameOrIp, locatorVars, applications,
                   validApplications, selectChoices, name, username,
                   enteredName, attempts, lastCheck, created, deviceType,
                   app, deviceOsVersion, values, config, answers,
                   clientError>>
    /\ UNCHANGED <<picked, pinVars>>

\* lines 287-299: the $filter of the query and the default name for creation
IsSlugForm(an) == Len(Split(an, "/")) > 1

MatchesFilter(f, an) ==
    IF IsSlugForm(an) THEN f.slug = ToLowerCase(an) ELSE f.app_name = an

CreationName_Whole(an) == an

CreationName(an) == IF IsSlugForm(an) THEN Split(an, "/")[2] ELSE an

\* lines 318-320
ValidApplications_Unfiltered(apps, compatible) == apps

ValidApplications(apps, compatible) ==
    SelectSeq(apps, LAMBDA a : a.is_for__device_type \in compatible)

\* line 330: the list handed to selectAppFromList on the named path
DisambiguationList(apps, valid) == apps

\* lines 301-330
NamedQuery ==
    /\ pc = "namedQuery"
    /\ \/ \E apps \in QueryResults({f \in Fleets : MatchesFilter(f, appName)}) :
            /\ applications' = apps
            /\ validApplications' = ValidApplications(apps, compatibleDeviceTypes)
            /\ IF Len(apps) = 0
                 THEN /\ LogAll(<<Ev("api:getAllDirectlyAccessible", ""),
                                  Ev("confirm:create", "")>>)
                      /\ name' = CreationName(appName)
                      /\ pc' = "confirm"
                      /\ UNCHANGED <<error, app, selectChoices>>
               ELSE IF Len(validApplications') = 0
                 THEN /\ Log("api:getAllDirectlyAccessible", "")
                      /\ Fail("NoMatchingFleet")
                      /\ UNCHANGED <<name, app, selectChoices>>
               ELSE IF Len(validApplications') = 1
                 THEN /\ Log("api:getAllDirectlyAccessible", "")
                      /\ app' = validApplications'[1]
                      /\ pc' = "resolved"
                      /\ UNCHANGED <<error, name, selectChoices>>
               ELSE /\ LogAll(<<Ev("api:getAllDirectlyAccessible", ""),
                                Ev("ask:fleet", "")>>)
                    /\ selectChoices' = DisambiguationList(apps, validApplications')
                    /\ pc' = "selectApp"
                    /\ UNCHANGED <<error, name, app>>
       \/ /\ Log("api:getAllDirectlyAccessible", "")
          /\ Fail("ApiError")
          /\ UNCHANGED <<applications, validApplications, name, app, selectChoices>>
    /\ UNCHANGED <<inputVars, deviceHostnameOrIp, locatorVars, archCompat,
                   compatibleDeviceTypes, username, enteredName, attempts,
                   lastCheck, created, deviceType, deviceOsVersion, values, config,
                   clientError>>
    /\ UNCHANGED <<output, answers, picked, pinVars>>

\* createOrSelectApp, lines 339-363: the API filters by compatible device type
CreateOrSelectApp ==
    /\ pc = "createOrSelect"
    /\ \/ \E apps \in QueryResults(
                {f \in Fleets : f.is_for__device_type \in compatibleDeviceTypes}) :
            /\ applications' = apps
            /\ IF Len(apps) = 0
                 THEN /\ LogAll(<<Ev("api:getAllDirectlyAccessible", ""),
                                  Ev("confirm:create", "")>>)
                      /\ pc' = "confirm"
                      /\ UNCHANGED selectChoices
                 ELSE /\ LogAll(<<Ev("api:getAllDirectlyAccessible", ""),
                                  Ev("ask:fleet", "")>>)
                      /\ selectChoices' = apps
                      /\ pc' = "selectApp"
            /\ UNCHANGED error
       \/ /\ Log("api:getAllDirectlyAccessible", "")
          /\ Fail("ApiError")
          /\ UNCHANGED <<applications, selectChoices>>
    /\ UNCHANGED <<inputVars, deviceHostnameOrIp, locatorVars, archCompat,
                   compatibleDeviceTypes, validApplications, name, username,
                   enteredName, attempts, lastCheck, created, joinVars,
                   clientError>>
    /\ UNCHANGED <<picked, pinVars>>

\* selectFromList resolves with the entry the user picked
SelectedApp_First(choices, i) == choices[1]

SelectedApp(choices, i) == choices[i]

\* selectAppFromList: the user picks one entry of the list shown
SelectAppFromList ==
    /\ pc = "selectApp"
    /\ \E i \in DOMAIN selectChoices :
         /\ picked' = i
         /\ app' = SelectedApp(selectChoices, i)
    /\ pc' = "resolved"
    /\ UNCHANGED <<inputVars, deviceHostnameOrIp, locatorVars, archCompat,
                   compatibleDeviceTypes, applications, validApplications,
                   selectChoices, name, username, enteredName, attempts,
                   lastCheck, created, deviceType, deviceOsVersion, values,
                   config, error, clientError, trace>>
    /\ UNCHANGED <<output, answers, pinVars>>

\* confirm(false, ..., undefined, true): declining aborts
ConfirmCreate ==
    /\ pc = "confirm"
    /\ \/ /\ pc' = "whoami"
          /\ UNCHANGED error
       \/ Fail("Aborted")
    /\ UNCHANGED <<inputVars, deviceHostnameOrIp, locatorVars, resolverVars,
                   joinVars, clientError, trace>>
    /\ UNCHANGED <<pinVars>>

\* --------------------------------------------------------- createApplication
\* lines 372-375
Whoami ==
    /\ pc = "whoami"
    /\ Log("api:whoami", "")
    /\ \/ /\ \E u \in Usernames : username' = u
          /\ pc' = "askName"
          /\ UNCHANGED error
       \/ /\ Fail("NotLoggedIn")
          /\ UNCHANGED username
    /\ UNCHANGED <<inputVars, deviceHostnameOrIp, locatorVars, archCompat,
                   compatibleDeviceTypes, applications, validApplications,
                   selectChoices, name, enteredName, attempts, lastCheck,
                   created, joinVars, clientError>>
    /\ UNCHANGED <<picked, pinVars>>

\* lines 380-385: the name prompt, pre-filled with name; the answer passes
\* validateApplicationName; a failing prompt rejects
AskName ==
    /\ pc = "askName"
    /\ attempts < MaxNameAttempts
    /\ Log("ask:name", "")
    /\ \/ /\ \E answer \in EnteredNames : enteredName' = answer
          /\ attempts' = attempts + 1
          /\ pc' = "dupCheck"
          /\ UNCHANGED error
       \/ /\ Fail("PromptError")
          /\ UNCHANGED <<enteredName, attempts>>
    /\ UNCHANGED <<inputVars, deviceHostnameOrIp, locatorVars, archCompat,
                   compatibleDeviceTypes, applications, validApplications,
                   selectChoices, name, username, lastCheck, created,
                   joinVars, clientError>>
    /\ UNCHANGED <<picked, pinVars>>

\* lines 387-401: getDirectlyAccessible resolving means the name is taken:
\* warn and prompt again; any rejection resolves the name
DupCheckOutcomes == {"found", "notFound", "queryFailed"}

AfterDupCheck_Exit(outcome) == "create"

AfterDupCheck(outcome) == IF outcome = "found" THEN "askName" ELSE "create"

DupCheck ==
    /\ pc = "dupCheck"
    /\ \E outcome \in DupCheckOutcomes :
         /\ lastCheck' = outcome
         /\ pc' = AfterDupCheck(outcome)
         /\ IF outcome = "found"
              THEN LogAll(<<Ev("api:getDirectlyAccessible", ""), Ev("warn", "")>>)
              ELSE Log("api:getDirectlyAccessible", "")
    /\ UNCHANGED <<inputVars, deviceHostnameOrIp, locatorVars, archCompat,
                   compatibleDeviceTypes, applications, validApplications,
                   selectChoices, name, username, enteredName, attempts,
                   created, joinVars, error, clientError>>
    /\ UNCHANGED <<picked, pinVars>>

\* lines 408-412: the arguments of sdk.models.application.create
CreateArgs(applicationName, dt, user) ==
    [name |-> applicationName, deviceType |-> dt, organization |-> user]

\* lines 408-417: create, then read the new fleet back
CreateFleet ==
    /\ pc = "create"
    /\ \/ /\ created' = CreateArgs(enteredName, deviceType, username)
          /\ \/ /\ LogAll(<<Ev("api:create", ""), Ev("api:get", "")>>)
                /\ app' = [slug |-> Slug(created'.organization, created'.name),
                           app_name |-> created'.name,
                           is_for__device_type |-> created'.deviceType]
                /\ pc' = "resolved"
                /\ UNCHANGED error
             \/ /\ LogAll(<<Ev("api:create", ""), Ev("api:get", "")>>)
                /\ Fail("ApiError")
                /\ UNCHANGED app
       \/ /\ Log("api:create", "")
          /\ Fail("ApiError")
          /\ UNCHANGED <<created, app>>
    /\ UNCHANGED <<inputVars, deviceHostnameOrIp, locatorVars, archCompat,
                   compatibleDeviceTypes, applications, validApplications,
                   selectChoices, name, username, enteredName, attempts,
                   lastCheck, deviceType, deviceOsVersion, values, config, clientError>>
    /\ UNCHANGED <<output, answers, picked, pinVars>>

\* -------------------------------------------------------------------- join
\* lines 45-51: the fleet's device type is forced to the probed one on the
\* local object; the resolver's locals are gone
ForceDeviceType_Never(a, dt) == a

ForceDeviceType(a, dt) ==
    IF a.is_for__device_type # dt
      THEN [a EXCEPT !.is_for__device_type = dt]
      ELSE a

JoinForceDeviceType ==
    /\ pc = "resolved"
    /\ app' = ForceDeviceType(app, deviceType)
    /\ pc' = "getOsVersion"
    /\ compatibleDeviceTypes' = {}
    /\ applications' = <<>>
    /\ validApplications' = <<>>
    /\ selectChoices' = <<>>
    /\ name' = <<>>
    /\ username' = <<>>
    /\ enteredName' = <<>>
    /\ attempts' = 0
    /\ lastCheck' = ""
    /\ picked' = 0
    /\ IF app.is_for__device_type # deviceType
         THEN Log("debug:Forcing device type", app.is_for__device_type)
         ELSE UNCHANGED trace
    /\ UNCHANGED <<inputVars, deviceHostnameOrIp, locatorVars, archCompat,
                   created, deviceType, deviceOsVersion, values, config, error,
                   clientError>>
    /\ UNCHANGED <<output, answers, pinVars>>

\* getOsVersion, lines 157-164
GetOsVersion ==
    /\ pc = "getOsVersion"
    /\ Log("exec:os-release", deviceHostnameOrIp)
    /\ \/ \E record \in OsReleaseRecords :
            /\ output' = record
            /\ IF Match(record, "VERSION_ID") = ""
                 THEN /\ Fail("ProbeError")
                      /\ UNCHANGED deviceOsVersion
                 ELSE /\ deviceOsVersion' = Match(record, "VERSION_ID")
                      /\ pc' = "generate"
                      /\ UNCHANGED error
       \/ /\ Fail("ExecError")
          /\ UNCHANGED <<deviceOsVersion, output>>
    /\ UNCHANGED <<inputVars, deviceHostnameOrIp, locatorVars, resolverVars,
                   clientError, deviceType, app, values, config>>
    /\ UNCHANGED <<answers, pinVars>>

\* -------------------------------------------------- Configuration Generator
\* manifest.options of the device type: absent, or the names of its options
ManifestOptions ==
    {[defined |-> FALSE, names |-> {}],
     [defined |-> TRUE, names |-> {}],
     [defined |-> TRUE, names |-> {"network", "wifiSsid"}],
     [defined |-> TRUE, names |-> {"network", "appUpdatePollInterval"}]}

\* lines 433-435: the options without the one named network
FormOptions(names) == {n \in names : n # "network"}

\* getCliForm().run(opts, { override }): one value per option, the override
\* where it is defined, the user's answer otherwise
RunForm(names, override, answer) ==
    [n \in names |->
        IF n \in DOMAIN override /\ override[n] # "undefined"
          THEN override[n] ELSE answer]

\* object spread { ...a, ...b }: every key of b, undefined values included,
\* replaces the one of a
Spread(a, b) ==
    [k \in DOMAIN a \cup DOMAIN b |-> IF k \in DOMAIN b THEN b[k] ELSE a[k]]

\* line 442: the form runs when the manifest has options
FormAnswersOf(manifestOptions, options, answer) ==
    IF manifestOptions.defined
      THEN RunForm(FormOptions(manifestOptions.names),
                   [appUpdatePollInterval |-> options.appUpdatePollInterval],
                   answer)
      ELSE NoValues

\* lines 441-444
MergeValues(manifestOptions, options, answer) ==
    Spread(FormAnswersOf(manifestOptions, options, answer), options)

ConnectivityModes == {"connman", "NetworkManager"}

\* lines 447-450
StripConnman_KeepFiles(cfg) ==
    IF cfg.connectivity = "connman"
      THEN [k \in DOMAIN cfg \ {"connectivity"} |-> cfg[k]]
      ELSE cfg

StripConnman(cfg) ==
    IF cfg.connectivity = "connman"
      THEN [k \in DOMAIN cfg \ {"connectivity", "files"} |-> cfg[k]]
      ELSE cfg

\* lines 420-453; configGen (./config) returns an object with the fleet's
\* device type, the version and a connectivity mode with its files
\* the object configGen synthesizes
Synthesized(a, vals, conn) ==
    [deviceType |-> a.is_for__device_type,
     version |-> vals.version,
     connectivity |-> conn,
     files |-> "network-files"]

\* (getOsVersion has returned: its local output is gone)
GenerateApplicationConfig ==
    /\ pc = "generate"
    /\ output' = <<>>
    /\ \/ \E m \in ManifestOptions, answer \in FormAnswers, conn \in ConnectivityModes :
            /\ answers' = FormAnswersOf(m,
                             [version |-> deviceOsVersion,
                              appUpdatePollInterval |-> appUpdatePollInterval],
                             answer)
            /\ values' = MergeValues(m,
                             [version |-> deviceOsVersion,
                              appUpdatePollInterval |-> appUpdatePollInterval],
                             answer)
            /\ \/ /\ LogAll(<<Ev("api:getManifestBySlug", ""), Ev("configGen", conn)>>)
                  /\ config' = StripConnman(Synthesized(app, values', conn))
                  /\ pc' = "configure"
                  /\ UNCHANGED error
               \/ /\ LogAll(<<Ev("api:getManifestBySlug", ""), Ev("configGen", "")>>)
                  /\ Fail("ConfigError")
                  /\ UNCHANGED config
       \/ /\ Log("api:getManifestBySlug", "")
          /\ Fail("ApiError")
          /\ UNCHANGED <<values, config, answers>>
    /\ UNCHANGED <<inputVars, deviceHostnameOrIp, locatorVars, resolverVars,
                   clientError, deviceType, app, deviceOsVersion>>
    /\ UNCHANGED <<pinVars>>

\* configure, lines 117-125: os-config join with the encoded payload
Configure_Retry ==
    /\ pc = "configure"
    /\ Log("exec:os-config join", deviceHostnameOrIp)
    /\ \/ pc' = "report"
       \/ pc' = "configure"
    /\ UNCHANGED <<inputVars, deviceHostnameOrIp, locatorVars, resolverVars,
                   joinVars, error, clientError>>
    /\ UNCHANGED <<pinVars>>

Configure ==
    /\ pc = "configure"
    /\ Log("exec:os-config join", deviceHostnameOrIp)
    /\ \/ /\ pc' = "report"
          /\ UNCHANGED error
       \/ Fail("ExecError")
    /\ UNCHANGED <<inputVars, deviceHostnameOrIp, locatorVars, resolverVars,
                   joinVars, clientError>>
    /\ UNCHANGED <<pinVars>>

\* join lines 67-68: the platform URL is read and success is logged
Report ==
    /\ pc = "report"
    /\ \/ /\ pc' = "done"
          /\ UNCHANGED error
       \/ Fail("SettingsError")
    /\ UNCHANGED <<inputVars, deviceHostnameOrIp, locatorVars, resolverVars,
                   joinVars, clientError, trace>>
    /\ UNCHANGED <<pinVars>>

\* -------------------------------------------------------------- device pin
\* commands/device/pin.ts lines 72-87: the device is read with its pinned
\* release expanded
PinGetDevice ==
    /\ pc = "start"
    /\ op = "pin"
    /\ \/ /\ \E commit \in Commits \cup {""} : pinnedRelease' = commit
          /\ LogAll(<<Ev("api:device.get", params.uuid),
                      Ev("deviceFetched", params.uuid)>>)
          /\ pc' = "pinFetched"
          /\ UNCHANGED error
       \/ /\ Log("api:device.get", params.uuid)
          /\ Fail("ApiError")
          /\ UNCHANGED pinnedRelease
    /\ UNCHANGED <<inputVars, deviceHostnameOrIp, locatorVars, resolverVars,
                   joinVars, clientError, params, printed, pinCalls>>

\* line 91: if (!releaseToPinTo) ... else pinToRelease
ShouldPin_Always(releaseToPinTo) == TRUE

ShouldPin(releaseToPinTo) == releaseToPinTo # ""

\* lines 92-98: the message printed
PinMessage(pinned) ==
    IF pinned # "" THEN <<"currently pinned to", pinned>>
    ELSE <<"not currently pinned", "">>

\* line 100
PinToReleaseArgs(p) == <<p.uuid, p.releaseToPinTo>>

\* lines 89-101
PinRun ==
    /\ pc = "pinFetched"
    /\ IF ~ShouldPin(params.releaseToPinTo)
         THEN /\ printed' = PinMessage(pinnedRelease)
              /\ pc' = "done"
              /\ UNCHANGED <<pinCalls, error>>
         ELSE /\ pinCalls' = Append(pinCalls, PinToReleaseArgs(params))
              /\ \/ /\ pc' = "done"
                    /\ UNCHANGED error
                 \/ Fail("ApiError")
              /\ UNCHANGED printed
    /\ UNCHANGED <<inputVars, deviceHostnameOrIp, locatorVars, resolverVars,
                   joinVars, clientError, params, pinnedRelease, trace>>

Next ==
    \/ DetermineDevice
    \/ Discover
    \/ StartProbes
    \/ \E i \in DOMAIN probe : PingSettle(i)
    \/ AllSettled
    \/ AnswerDevice
    \/ LocateReturn
    \/ AssertDeviceIsCompatible
    \/ GetDeviceType
    \/ Deconfigure
    \/ ResolveStart
    \/ NamedQuery
    \/ CreateOrSelectApp
    \/ SelectAppFromList
    \/ ConfirmCreate
    \/ Whoami
    \/ AskName
    \/ DupCheck
    \/ CreateFleet
    \/ JoinForceDeviceType
    \/ GetOsVersion
    \/ GenerateApplicationConfig
    \/ Configure
    \/ Report
    \/ PinGetDevice
    \/ PinRun

Spec == Init /\ [][Next]_vars

\* ==================================================================== claims
Happened(what) == \E i \in DOMAIN trace : trace[i][1] = what

Times(what) == Cardinality({i \in DOMAIN trace : trace[i][1] = what})

First(what) == CHOOSE i \in DOMAIN trace :
    /\ trace[i][1] = what
    /\ \A j \in 1..(i - 1) : trace[j][1] # what

DeviceCommands ==
    {"exec:os-release", "exec:os-config join", "exec:os-config leave"}

Compatible(dt) ==
    IsArchitectureCompatibleWith(archCompat, ArchOf(deviceType), ArchOf(dt))

\* C1: the fleet returned by getOrSelectApplication has a device type whose
\* architecture is compatible with the one of the probed device type, on
\* every path of the resolver.
C1_ResolvedFleetCompatible ==
    pc = "resolved" => Compatible(app.is_for__device_type)

\* C2: every os-release read and every os-config join / leave in the trace is
\* preceded by a successful assertDeviceIsCompatible for the same address,
\* and a run whose compatibility check failed issues none of them.
C2_CommandsAfterAssert ==
    /\ \A i \in DOMAIN trace :
         trace[i][1] \in DeviceCommands =>
            \E j \in 1..(i - 1) : trace[j] = Ev("assertOk", trace[i][2])
    /\ clientError # "" =>
         \A i \in DOMAIN trace : trace[i][1] \notin DeviceCommands

C2_Witness ==
    /\ pc = "done"
    /\ op = "join"
    /\ Times("exec:os-release") = 2
    /\ Happened("exec:os-config join")

\* C3: in join, the device type probe, fleet resolution, configuration
\* generation and delivery start in that order, each only once and only
\* with the result of the previous step at hand (so a failed step is
\* followed by no later step), and a run that ends in success has executed
\* os-config join exactly once.
C3_JoinSequential ==
    op = "join" =>
      /\ Times("api:deviceType.get") <= 1
      /\ Times("api:getManifestBySlug") <= 1
      /\ Times("exec:os-config join") <= 1
      /\ Times("exec:os-release") <= 2
      /\ Happened("api:deviceType.get") =>
           /\ deviceType # ""
           /\ Happened("exec:os-release")
           /\ First("exec:os-release") < First("api:deviceType.get")
      /\ Happened("api:getManifestBySlug") =>
           /\ app # NoApp
           /\ deviceOsVersion # ""
           /\ First("api:deviceType.get") < First("api:getManifestBySlug")
      /\ Happened("exec:os-config join") =>
           /\ DOMAIN config # {}
           /\ First("api:getManifestBySlug") < First("exec:os-config join")
      /\ pc = "failed" => error # NoError
      /\ pc = "done" => Times("exec:os-config join") = 1

C3_Witness ==
    /\ pc = "done"
    /\ op = "join"
    /\ Times("exec:os-config join") = 1

Responsive == {i \in DOMAIN devices : devices[i] # "" /\ devices[i] \in alive}

LocatorDecided ==
    \/ pc \in {"askDevice", "selected"}
    \/ pc = "failed" /\ error.kind = "NoDevicesFound"

\* C5: once every probe has settled, locate fails exactly when no candidate
\* is responsive, then with NoDevicesFound and without a prompt; failed
\* pings alone never make it fail.
C5_FailsIffNoneResponsive ==
    /\ LocatorDecided => (pc = "failed" <=> Responsive = {})
    /\ error.kind = "NoDevicesFound" =>
         /\ ~Happened("ask:device")
         /\ \A i \in DOMAIN probe : probe[i] = "returned"
    /\ (pc = "probing" /\ \A i \in DOMAIN probe : probe[i] = "returned") =>
         error = NoError

C5_Witness ==
    /\ pc = "failed"
    /\ error.kind = "NoDevicesFound"
    /\ Len(devices) = 2
    /\ \E i \in DOMAIN devices : devices[i] # ""

C5_WitnessTolerated ==
    /\ pc = "askDevice"
    /\ \E i \in DOMAIN devices : devices[i] # "" /\ devices[i] \notin alive

CreationPcs == {"confirm", "whoami", "askName", "dupCheck", "create", "resolved"}

SlugFormNoMatch ==
    /\ IsSlugForm(appName)
    /\ pc \in CreationPcs
    /\ applications = <<>>

\* C6 (as stated): for a name ns/name without a fleet of that slug, the
\* fleet is created under namespace ns.
C6_CreatedUnderGivenNamespace ==
    (SlugFormNoMatch /\ created # NoCreated) =>
        ToLowerCase(created.organization) = ToLowerCase(Split(appName, "/")[1])

\* C6 (amended): for a name ns/name without a fleet of that slug, the
\* creation is offered, the name prompt is pre-filled with the part after
\* the slash, and the fleet is created for the probed device type under the
\* organization whoami returned, whatever ns is.
C6_CreatedUnderCaller ==
    SlugFormNoMatch =>
        /\ Times("confirm:create") = 1
        /\ name = Split(appName, "/")[2]
        /\ name = <<"f">>
        /\ created # NoCreated =>
             /\ created.organization = username
             /\ created.deviceType = deviceType
             /\ created.name = enteredName

C6_Witness ==
    /\ SlugFormNoMatch
    /\ pc = "resolved"
    /\ created.organization = <<"u">>
    /\ appName = <<"N", "/", "f">>

\* the compatible ones among the fleets the name query returned
NamedMatches == appName # <<>> /\ Len(applications) > 0

CompatibleMatches ==
    SelectSeq(applications, LAMBDA a : Compatible(a.is_for__device_type))

\* C7: when the name query returned at least one fleet, creation is never
\* offered; without compatible fleet among them the resolver fails with
\* NoMatchingFleet; with exactly one it returns that fleet without a
\* selection prompt.
C7_NamedMatchOutcome ==
    NamedMatches =>
        /\ ~Happened("confirm:create")
        /\ created = NoCreated
        /\ Len(CompatibleMatches) = 0 =>
             (pc = "failed" /\ error.kind = "NoMatchingFleet")
        /\ Len(CompatibleMatches) = 1 =>
             /\ pc = "resolved"
             /\ app = CompatibleMatches[1]
             /\ ~Happened("ask:fleet")

C7_WitnessRejected ==
    /\ NamedMatches
    /\ Len(applications) = 1
    /\ error.kind = "NoMatchingFleet"

C7_Witness ==
    /\ NamedMatches
    /\ Len(applications) = 2
    /\ Len(CompatibleMatches) = 1
    /\ pc = "resolved"
    /\ app = applications[2]

\* C8: a duplicate check that finds the name leads to a warning and to the
\* name prompt again, never to the creation; create is called at most once,
\* after a check that did not find the name, with the name of the last
\* prompt.
C8_CollisionLoops ==
    /\ (pc = "askName" /\ attempts > 0) =>
         /\ lastCheck = "found"
         /\ trace[Len(trace)] = Ev("warn", "")
    /\ lastCheck = "found" =>
         /\ pc \in {"askName", "dupCheck", "failed"}
         /\ created = NoCreated
         /\ ~Happened("api:create")
    /\ username # <<>> =>
         Times("warn") =
           Times("api:getDirectlyAccessible")
             - (IF lastCheck \in {"notFound", "queryFailed"} THEN 1 ELSE 0)
    /\ Times("api:create") <= 1
    /\ pc = "create" => lastCheck \in {"notFound", "queryFailed"}
    /\ (pc = "resolved" /\ created # NoCreated) =>
         /\ lastCheck \in {"notFound", "queryFailed"}
         /\ Times("api:create") = 1
         /\ created.name = enteredName

C8_Witness ==
    /\ pc = "resolved"
    /\ created # NoCreated
    /\ Times("warn") = 1
    /\ attempts = 2

\* C9 (as stated): whatever error the exec client raises for the version
\* check, the caller gets an ExpectedError naming the minimum OS version.
C9_AlwaysWrapped ==
    clientError # "" =>
        error = [kind |-> "ExpectedError", minVersion |-> MIN_BALENAOS_VERSION]

\* C9 (amended): an error of the exec client that is not an ExpectedError
\* reaches the caller as an ExpectedError naming the minimum OS version; an
\* ExpectedError of the exec client reaches the caller as it is.
C9_WrappedUnlessExpected ==
    /\ (clientError # "" /\ clientError # "ExpectedError") =>
         /\ pc = "failed"
         /\ error = [kind |-> "ExpectedError",
                     minVersion |-> MIN_BALENAOS_VERSION]
    /\ clientError = "ExpectedError" =>
         /\ pc = "failed"
         /\ error = [kind |-> "ExpectedError", minVersion |-> ""]

C9_Witness ==
    /\ clientError = "Error"
    /\ error.minVersion = MIN_BALENAOS_VERSION

\* C10: at every moment of the probing, responsiveDevices holds, once each,
\* exactly the candidates with an address whose ping has succeeded; with all
\* probes settled this is the same collection for every order of the
\* candidate list and every order of completion.
C10_ResponsiveIsPinged ==
    \A a \in Addresses \cup {""} :
        Count(responsiveDevices, a) =
            Cardinality({i \in DOMAIN probe :
                /\ probe[i] = "returned"
                /\ devices[i] = a
                /\ a # ""
                /\ a \in alive})

C10_Witness ==
    /\ pc = "askDevice"
    /\ Len(devices) = 2
    /\ Len(responsiveDevices) = 2
    /\ responsiveDevices[1] = devices[2]
    /\ devices[1] # devices[2]

C10_WitnessPartial ==
    /\ pc = "askDevice"
    /\ Len(devices) = 2
    /\ Len(responsiveDevices) = 1

\* C11: selectLocalDevice starts the probe of every candidate before it
\* waits (each candidate with an address is being pinged or has returned),
\* a ping that failed leaves the other probes running, and the empty check
\* and the prompt come only once every probe has returned, so every
\* responsive candidate has been recorded by then.
C11_AllProbedBeforeDecision ==
    /\ (pc = "probing" \/ LocatorDecided) =>
         /\ DOMAIN probe = DOMAIN devices
         /\ \A i \in DOMAIN probe : probe[i] \in {"pinging", "returned"}
    /\ LocatorDecided =>
         /\ \A i \in DOMAIN probe : probe[i] = "returned"
         /\ \A i \in Responsive : devices[i] \in Range(responsiveDevices)
    /\ (\E i \in DOMAIN probe : probe[i] = "pinging") =>
         /\ pc = "probing"
         /\ ~Happened("ask:device")

C11_Witness ==
    /\ pc = "askDevice"
    /\ Len(devices) = 2
    /\ devices[1] # ""
    /\ devices[1] \notin alive
    /\ devices[2] \in alive
    /\ responsiveDevices = <<devices[2]>>

C11_WitnessSiblingRuns ==
    /\ pc = "probing"
    /\ Len(devices) = 2
    /\ probe[1] = "returned"
    /\ devices[1] # ""
    /\ devices[1] \notin alive
    /\ probe[2] = "pinging"

\* the connectivity mode configGen synthesized in this run
SynthesizedConnectivity == trace[First("configGen")][2]

\* C12: the configuration generateApplicationConfig returns lacks both
\* connectivity and files exactly when the synthesized connectivity mode is
\* connman; for every other mode it is the synthesized object unchanged,
\* and the other keys are never touched.
C12_StripIffConnman ==
    DOMAIN config # {} =>
        /\ Happened("configGen")
        /\ (SynthesizedConnectivity = "connman") <=>
             ("connectivity" \notin DOMAIN config /\ "files" \notin DOMAIN config)
        /\ (SynthesizedConnectivity = "connman") <=>
             ("connectivity" \notin DOMAIN config \/ "files" \notin DOMAIN config)
        /\ SynthesizedConnectivity # "connman" =>
             config = Synthesized(app, values, SynthesizedConnectivity)
        /\ {"deviceType", "version"} \subseteq DOMAIN config
        /\ config.deviceType = app.is_for__device_type
        /\ config.version = values.version

C12_Witness ==
    /\ pc = "configure"
    /\ SynthesizedConnectivity = "connman"
    /\ DOMAIN config = {"deviceType", "version"}

C12_WitnessKept ==
    /\ pc = "configure"
    /\ SynthesizedConnectivity # "connman"
    /\ config.connectivity = SynthesizedConnectivity
    /\ "files" \in DOMAIN config

\* the events of the trace that are operations of the fleet API
ApiEvents ==
    {"api:deviceType.get", "api:deviceType.getAllSupported",
     "api:getAllDirectlyAccessible", "api:getDirectlyAccessible",
     "api:whoami", "api:create", "api:get", "api:getManifestBySlug",
     "api:device.get"}

\* C13: a leave run invokes no operation of the fleet API and asks nothing
\* about fleets; it executes os-config leave at most once, only after the
\* compatibility check of the same address succeeded, exactly once when it
\* ends in success, and it never reads os-release or executes os-config join.
C13_LeaveOnlyRemoves ==
    op = "leave" =>
        /\ \A i \in DOMAIN trace :
             trace[i][1] \notin
                ApiEvents \cup {"ask:fleet", "ask:name", "confirm:create",
                                "exec:os-release", "exec:os-config join"}
        /\ Times("exec:os-config leave") <= 1
        /\ \A i \in DOMAIN trace :
             trace[i][1] = "exec:os-config leave" =>
                \E j \in 1..(i - 1) : trace[j] = Ev("assertOk", trace[i][2])
        /\ pc = "done" => Times("exec:os-config leave") = 1
        /\ created = NoCreated

C13_Witness ==
    /\ op = "leave"
    /\ pc = "done"
    /\ Happened("assertOk")
    /\ Times("exec:os-config leave") = 1

\* the key the probe that has just read the record in output looks for:
\* getDeviceType is the first os-release read of a run, getOsVersion the second
ProbedKey == IF Times("exec:os-release") = 1 THEN "SLUG" ELSE "VERSION_ID"

HasLine(text, key) == \E i \in DOMAIN text : text[i].key = key

HasValue(text, key) ==
    \E i \in DOMAIN text : text[i].key = key /\ text[i].value # ""

FirstValue(text, key) ==
    LET i == CHOOSE n \in DOMAIN text :
                 /\ text[n].key = key /\ text[n].value # ""
                 /\ \A m \in 1..(n - 1) :
                      ~(text[m].key = key /\ text[m].value # "")
    IN text[i].value

\* C14 as stated: a record that contains a line of the probed key is never
\* answered with ProbeError (the probe returns the value of that line).
C14_LinePresentNeverFails ==
    (pc = "failed" /\ error.kind = "ProbeError") => ~HasLine(output, ProbedKey)

\* C14, amended: for a record with a SLUG (VERSION_ID) line whose value is
\* not empty, getDeviceType (getOsVersion) returns the value of the first
\* such line, whatever the order of the lines and the other keys; the probe
\* fails with ProbeError exactly when the record has no line of that key
\* with a non-empty value.
C14_FirstNonEmptyValue ==
    /\ pc = "resolve" =>
         /\ HasValue(output, "SLUG")
         /\ deviceType = FirstValue(output, "SLUG")
    /\ pc = "generate" =>
         /\ HasValue(output, "VERSION_ID")
         /\ deviceOsVersion = FirstValue(output, "VERSION_ID")
    /\ (pc = "failed" /\ error.kind = "ProbeError") =>
         ~HasValue(output, ProbedKey)

C14_Witness ==
    /\ pc = "generate"
    /\ Len(output) = 3
    /\ output[1].key = "NAME"
    /\ output[2].key = "VERSION_ID"
    /\ deviceOsVersion = output[2].value

C14_WitnessEmptyValue ==
    /\ pc = "failed"
    /\ error.kind = "ProbeError"
    /\ HasLine(output, "SLUG")
    /\ ProbedKey = "SLUG"

C14_WitnessMissing ==
    /\ pc = "failed"
    /\ error.kind = "ProbeError"
    /\ ProbedKey = "VERSION_ID"
    /\ output # <<>>
    /\ ~HasLine(output, "VERSION_ID")

NoNamePath == op = "join" /\ appName = <<>>

\* C15: on the no-name path, whenever the query returned one or more fleets
\* (all of them compatible) the selection prompt is shown exactly once, also
\* for a single fleet, with the query result as its list, unchanged and in
\* the same order; the resolver returns the element of that list the user
\* picked, and the prompt precedes configuration generation.
C15_NoNamePromptsOverApiList ==
    NoNamePath =>
        /\ pc = "selectApp" =>
             /\ Len(applications) >= 1
             /\ selectChoices = applications
             /\ \A i \in DOMAIN applications :
                  applications[i].is_for__device_type \in compatibleDeviceTypes
             /\ Times("ask:fleet") = 1
             /\ ~Happened("confirm:create")
        /\ (pc = "resolved" /\ created = NoCreated) =>
             /\ Times("ask:fleet") = 1
             /\ picked \in DOMAIN applications
             /\ selectChoices = applications
             /\ app = applications[picked]
        /\ (Happened("api:getManifestBySlug") /\ created = NoCreated) =>
             /\ Happened("ask:fleet")
             /\ First("ask:fleet") < First("api:getManifestBySlug")

C15_Witness ==
    /\ NoNamePath
    /\ pc = "resolved"
    /\ Len(applications) = 2
    /\ picked = 2
    /\ app = applications[2]
    /\ applications[1] # applications[2]

C15_WitnessSingle ==
    /\ NoNamePath
    /\ pc = "resolved"
    /\ Len(applications) = 1
    /\ Times("ask:fleet") = 1

C16_WitnessNotForced ==
    /\ pc = "configure"
    /\ ~Happened("debug:Forcing device type")
    /\ created = NoCreated

\* C17: device pin without a commit reads the device once, prints the pin
\* state and never calls pinToRelease; with a commit it prints nothing and
\* calls pinToRelease at most once, exactly once when it ends in success,
\* with the uuid and the commit of the command line, and only after
\* device.get has returned the device.
C17_PinOnlyWithCommit ==
    op = "pin" =>
        /\ Times("api:device.get") <= 1
        /\ \A i \in DOMAIN trace :
             trace[i][1] \in {"api:device.get", "deviceFetched"}
        /\ params.releaseToPinTo = "" =>
             /\ pinCalls = <<>>
             /\ pc = "done" =>
                  /\ Happened("deviceFetched")
                  /\ printed = PinMessage(pinnedRelease)
        /\ params.releaseToPinTo # "" =>
             /\ printed = <<>>
             /\ Len(pinCalls) <= 1
             /\ pc = "done" => Len(pinCalls) = 1
        /\ \A i \in DOMAIN pinCalls :
             /\ pinCalls[i] = <<params.uuid, params.releaseToPinTo>>
             /\ Happened("deviceFetched")
             /\ params.releaseToPinTo # ""

C17_Witness ==
    /\ op = "pin"
    /\ pc = "done"
    /\ params.releaseToPinTo # ""
    /\ pinCalls = <<<<params.uuid, params.releaseToPinTo>>>>

C17_WitnessPrintOnly ==
    /\ op = "pin"
    /\ pc = "done"
    /\ params.releaseToPinTo = ""
    /\ printed # <<>>
    /\ pinCalls = <<>>

\* C18: in the values handed to configGen, every option the form collected
\* other than version still has the value the form returned for it (the
\* caller's appUpdatePollInterval where one was supplied, the user's answer
\* otherwise); the merge replaces or erases none of them.
C18_FormValuesKept ==
    DOMAIN values # {} =>
        \A k \in DOMAIN answers \ {"version"} : values[k] = answers[k]

\* C19: whenever the device selection prompt is shown, its default is one
\* of the choices it offers, the address of a responsive candidate.
C19_DefaultIsAChoice ==
    pc = "askDevice" =>
        promptDefault \in DeviceChoices(devices, responsiveDevices)

\* C20: a join run that ends in an error after createApplication returned
\* the new fleet has at least executed the delivery step (os-config join);
\* it does not fail in the OS version probe or in configuration generation
\* with the fleet left behind.
C20_CreatedThenDeliveryReached ==
    (op = "join" /\ pc = "failed" /\ created # NoCreated /\ app # NoApp) =>
        Happened("exec:os-config join")
====
